---- MODULE Spec2Model ----
(***************************************************************************)
(* Model of the C BPF program interface: the zero-copy input decoder       *)
(* sol_deserialize (sdk/inc/sol_bpf.h), the dup_accounts example program   *)
(* (src/dup_accounts/dup_accounts.c) and the nested-invocation privilege   *)
(* rule exercised by the invoked program's instructions                    *)
(* (src/invoked/instruction.h).                                            *)
(*                                                                         *)
(* Memory is a sequence of bytes; a C pointer into the input buffer is the *)
(* 0-based offset of the byte it points to.  A read past the end of the    *)
(* buffer is undefined behaviour: it yields a fault (the VM aborts) or an  *)
(* arbitrary word.                                                         *)
(***************************************************************************)
EXTENDS Integers, Sequences, FiniteSets, TLC

VARIABLES
  mem,        \* the input buffer, byte by byte (mutated in place)
  mem0,       \* the buffer as the host handed it over
  accts,      \* the accounts the host serialized, in order
  idata,      \* the instruction data the host serialized
  kind,       \* how the buffer deviates from the wire format ("valid" if not)
  caller,     \* "test": direct call of sol_deserialize; "entrypoint"; "none"
  pc,         \* position in the code
  input,      \* sol_deserialize: the cursor `input`
  i,          \* sol_deserialize: the loop counter
  ka_len,     \* sol_deserialize: parameter ka_len (reassigned by the code)
  ka_len0,    \* ka_len as the caller passed it
  exact,      \* TRUE iff ka_len_out == NULL
  ka_len_out, \* *ka_len_out, UNSET while not written
  ka,         \* the SolKeyedAccounts array: index -> view, written entries only
  data,       \* *data, UNSET while not written
  data_len,   \* *data_len, UNSET while not written
  ret,        \* return value of sol_deserialize (RTRUE, RFALSE), NONE while running
  oob,        \* TRUE once a read past the end of the buffer happened
  status,     \* return value of entrypoint, NONE while running
  opread,     \* TRUE once entrypoint read params.data[0]
  nstores,    \* number of stores the test program did through the views
  stack,      \* privilege model: the grants of each frame of the call stack
  perr,       \* privilege model: outcome of the last invocation attempt
  lastReq     \* privilege model: the grants the last attempt asked for

vars == <<mem, mem0, accts, idata, kind, caller, pc, input, i, ka_len, ka_len0,
          exact, ka_len_out, ka, data, data_len, ret, oob, status, opread,
          nstores, stack, perr, lastReq>>

deserVars == <<input, i, ka_len, ka_len0, exact, ka_len_out, ka, data, data_len, ret, oob>>
hostVars  == <<mem0, accts, idata, kind, caller>>
privVars  == <<stack, perr, lastReq>>

NONE  == "none"   \* no status yet (a string-valued variable)
UNSET == 0 - 1    \* an output not written yet (an integer-valued variable)
FAULT == 0 - 2    \* outcome of a read: the access faults and the VM aborts
RTRUE  == "true"  \* sol_deserialize returned true
RFALSE == "false" \* sol_deserialize returned false

----------------------------------------------------------------------------
(* Bounds of the model *)

MaxAccounts == 2   \* accounts in a buffer handed to a direct sol_deserialize call
MaxKaLen    == 3   \* largest ka_len a direct caller passes
MaxStores   == 1   \* stores a direct caller does through the decoded views
MaxDepth    == 3   \* depth of the call stack of nested invocations

(* Program constants *)

SIZE_PUBKEY == 32
SIZE_U64    == 8
KA_SIZE     == 4

\* Values of 2^24 and more are beyond every offset and length of the model;
\* they are all represented by HUGE.
HUGE == 256 * 256 * 256

Sat(x) == IF x > HUGE THEN HUGE ELSE x

----------------------------------------------------------------------------
(* Bytes and words *)

RECURSIVE Repeat(_, _)
Repeat(b, n) == IF n = 0 THEN <<>> ELSE <<b>> \o Repeat(b, n - 1)

\* little-endian bytes of an unsigned 64-bit value below 2^24
U64LE(v) == <<v % 256, (v \div 256) % 256, (v \div 65536) % 256>>
            \o Repeat(0, SIZE_U64 - 3)

\* two's complement little-endian bytes of a signed 64-bit value, |v| < 2^24
I64LE(v) ==
  IF v >= 0 THEN U64LE(v)
  ELSE LET u == -v - 1
       IN <<255 - (u % 256), 255 - ((u \div 256) % 256), 255 - ((u \div 65536) % 256)>>
          \o Repeat(255, SIZE_U64 - 3)

\* the 8 bytes at offset off
Bytes8(m, off) == SubSeq(m, off + 1, off + SIZE_U64)

\* value of 8 little-endian bytes read as uint64_t
U64Val(bs) ==
  IF \A k \in 4..SIZE_U64 : bs[k] = 0
  THEN bs[1] + 256 * bs[2] + 65536 * bs[3]
  ELSE HUGE

\* value of 8 little-endian bytes read as int64_t
I64Val(bs) ==
  IF bs[SIZE_U64] < 128 THEN U64Val(bs)
  ELSE IF \A k \in 4..SIZE_U64 : bs[k] = 255
       THEN -(1 + (255 - bs[1]) + 256 * (255 - bs[2]) + 65536 * (255 - bs[3]))
       ELSE -HUGE

\* bs + k modulo 2^(8 * Len(bs)), ripple carry (k may be negative)
RECURSIVE AddLE(_, _)
AddLE(bs, k) ==
  IF bs = <<>> THEN <<>>
  ELSE LET s == bs[1] + k
       IN <<s % 256>> \o AddLE(Tail(bs), (s - (s % 256)) \div 256)

\* m with the bytes bs stored at offset off
WriteBytes(m, off, bs) ==
  [k \in 1..Len(m) |-> IF k > off /\ k <= off + Len(bs) THEN bs[k - off] ELSE m[k]]

InBounds(m, off, n) == off >= 0 /\ off + n <= Len(m)

\* *(uint64_t *) (buffer + off): the outcomes the read can have
ReadU64(m, off) ==
  IF InBounds(m, off, SIZE_U64) THEN {U64Val(Bytes8(m, off))}
  ELSE {FAULT, 0, 1}

\* *(uint8_t *) (buffer + off)
ReadU8(m, off) ==
  IF InBounds(m, off, 1) THEN {m[off + 1]}
  ELSE {FAULT, 0, 6}

----------------------------------------------------------------------------
(* The host: the wire format of the input buffer *)

Pubkey(id) == Repeat(id, SIZE_PUBKEY)

AcctA == [key |-> 1, tokens |-> 5, data |-> <<7>>, owner |-> 9]
AcctB == [key |-> 2, tokens |-> 0, data |-> <<>>, owner |-> 9]
AcctC == [key |-> 3, tokens |-> 300, data |-> <<254, 2>>, owner |-> 8]

SerializeAccount(a) ==
  Pubkey(a.key) \o I64LE(a.tokens) \o U64LE(Len(a.data)) \o a.data \o Pubkey(a.owner)

RECURSIVE SerializeAccounts(_)
SerializeAccounts(as) ==
  IF as = <<>> THEN <<>>
  ELSE SerializeAccount(Head(as)) \o SerializeAccounts(Tail(as))

Serialize(as, d) ==
  U64LE(Len(as)) \o SerializeAccounts(as) \o U64LE(Len(d)) \o d

\* size of the serialized form of account a
AccountSize(a) == SIZE_PUBKEY + SIZE_U64 + SIZE_U64 + Len(a.data) + SIZE_PUBKEY

\* offset of account number k (from 0) in the serialized buffer
RECURSIVE AccountOff(_, _)
AccountOff(as, k) ==
  IF k = 0 THEN SIZE_U64
  ELSE AccountOff(as, k - 1) + AccountSize(as[k])

\* offset of the instruction data length word: after all accounts
PayloadOff(as) == AccountOff(as, Len(as))

\* buffers that deviate from the wire format
Malformed(as, d, k) ==
  LET good == Serialize(as, d)
  IN CASE k = "valid"      -> good
       [] k = "count_over" -> WriteBytes(good, 0, U64LE(Len(as) + 1))
       [] k = "len_over"   -> WriteBytes(good, PayloadOff(as), U64LE(Len(d) + 1))
       [] k = "cut"        -> SubSeq(good, 1, Len(good) - 1)
       [] k = "short"      -> SubSeq(good, 1, SIZE_U64 - 1)

Kinds == {"valid", "count_over", "len_over", "cut", "short"}

AcctSeqs(pool, lens) == UNION {[1..n -> pool] : n \in lens}

Valid == kind = "valid"

----------------------------------------------------------------------------
(* sol_deserialize *)

\* a comparison that lets a larger declared count pass
ExactMismatchLoose(kl, count) == kl > count

\* exact mode: the declared count must equal ka_len
ExactMismatch(kl, count) == kl # count

\* no clamp to the declared count
BoundedLenNoClamp(kl, count) == kl

\* bounded mode: fill up to ka_len accounts
BoundedLen(kl, count) == IF kl > count THEN count ELSE kl

\* the view of the account at the cursor inp whose length word holds len
AccountView(inp, len) ==
  [key          |-> inp,
   tokens       |-> inp + SIZE_PUBKEY,
   userdata_len |-> len,
   userdata     |-> inp + SIZE_PUBKEY + SIZE_U64 + SIZE_U64,
   program_id   |-> Sat(inp + SIZE_PUBKEY + SIZE_U64 + SIZE_U64 + len)]

\* a cursor that does not skip the account's data bytes
NextInputNoData(inp, len) ==
  Sat(inp + SIZE_PUBKEY + SIZE_U64 + SIZE_U64 + SIZE_PUBKEY)

\* the cursor after the account at inp
NextInput(inp, len) ==
  Sat(inp + SIZE_PUBKEY + SIZE_U64 + SIZE_U64 + len + SIZE_PUBKEY)

Fault ==
  /\ pc' = "fault"
  /\ oob' = TRUE
  /\ UNCHANGED <<mem, input, i, ka_len, ka_len0, exact, ka_len_out, ka, data,
                 data_len, ret, status, opread, nstores>>
  /\ UNCHANGED hostVars
  /\ UNCHANGED privVars

\* lines 193-205: the mode check on the declared count
DeserCount ==
  /\ pc = "deser"
  /\ \E w \in ReadU64(mem, 0) :
       IF w = FAULT THEN Fault
       ELSE /\ oob' = (oob \/ ~InBounds(mem, 0, SIZE_U64))
            /\ IF exact
               THEN IF ExactMismatch(ka_len, w)
                    THEN /\ ret' = RFALSE
                         /\ pc' = "done"
                         /\ UNCHANGED <<ka_len, ka_len_out, input>>
                    ELSE /\ ka_len' = w
                         /\ input' = SIZE_U64
                         /\ pc' = "loop"
                         /\ UNCHANGED <<ret, ka_len_out>>
               ELSE /\ ka_len' = BoundedLen(ka_len, w)
                    /\ ka_len_out' = ka_len'
                    /\ input' = SIZE_U64
                    /\ pc' = "loop"
                    /\ UNCHANGED ret
            /\ UNCHANGED <<mem, i, ka_len0, exact, ka, data, data_len, status,
                           opread, nstores>>
            /\ UNCHANGED hostVars
            /\ UNCHANGED privVars

\* lines 206-224: one iteration of the loop over the accounts
DeserAccount ==
  /\ pc = "loop"
  /\ i < ka_len
  /\ \E w \in ReadU64(mem, input + SIZE_PUBKEY + SIZE_U64) :
       IF w = FAULT THEN Fault
       ELSE /\ oob' = (oob \/ ~InBounds(mem, input + SIZE_PUBKEY + SIZE_U64, SIZE_U64))
            /\ ka' = [k \in (DOMAIN ka) \cup {i} |->
                        IF k = i THEN AccountView(input, w) ELSE ka[k]]
            /\ input' = NextInput(input, w)
            /\ i' = i + 1
            /\ UNCHANGED <<mem, pc, ka_len, ka_len0, exact, ka_len_out, data,
                           data_len, ret, status, opread, nstores>>
            /\ UNCHANGED hostVars
            /\ UNCHANGED privVars

\* lines 226-231: the instruction data
DeserData ==
  /\ pc = "loop"
  /\ ~(i < ka_len)
  /\ \E w \in ReadU64(mem, input) :
       IF w = FAULT THEN Fault
       ELSE /\ oob' = (oob \/ ~InBounds(mem, input, SIZE_U64))
            /\ data_len' = w
            /\ input' = Sat(input + SIZE_U64)
            /\ data' = input'
            /\ ret' = RTRUE
            /\ pc' = "done"
            /\ UNCHANGED <<mem, i, ka_len, ka_len0, exact, ka_len_out, ka,
                           status, opread, nstores>>
            /\ UNCHANGED hostVars
            /\ UNCHANGED privVars

----------------------------------------------------------------------------
(* A direct caller of sol_deserialize that stores through the views *)

\* *ka[k].tokens = v
StoreTokens(k, v) ==
  /\ caller = "test"
  /\ pc = "done"
  /\ ret = RTRUE
  /\ nstores < MaxStores
  /\ k \in DOMAIN ka
  /\ IF InBounds(mem, ka[k].tokens, SIZE_U64)
     THEN /\ mem' = WriteBytes(mem, ka[k].tokens, I64LE(v))
          /\ UNCHANGED <<pc, oob>>
     ELSE /\ pc' = "fault"
          /\ oob' = TRUE
          /\ UNCHANGED mem
  /\ nstores' = nstores + 1
  /\ UNCHANGED <<input, i, ka_len, ka_len0, exact, ka_len_out, ka, data,
                 data_len, ret, status, opread>>
  /\ UNCHANGED hostVars
  /\ UNCHANGED privVars

\* ka[k].userdata[j] = b
StoreUserdata(k, j, b) ==
  /\ caller = "test"
  /\ pc = "done"
  /\ ret = RTRUE
  /\ nstores < MaxStores
  /\ k \in DOMAIN ka
  /\ j < ka[k].userdata_len
  /\ IF InBounds(mem, ka[k].userdata + j, 1)
     THEN /\ mem' = WriteBytes(mem, ka[k].userdata + j, <<b>>)
          /\ UNCHANGED <<pc, oob>>
     ELSE /\ pc' = "fault"
          /\ oob' = TRUE
          /\ UNCHANGED mem
  /\ nstores' = nstores + 1
  /\ UNCHANGED <<input, i, ka_len, ka_len0, exact, ka_len_out, ka, data,
                 data_len, ret, status, opread>>
  /\ UNCHANGED hostVars
  /\ UNCHANGED privVars

StoreValues == {-3}
StoreBytes  == {200}

Store ==
  \/ \E k \in 0..(MaxKaLen - 1), v \in StoreValues : StoreTokens(k, v)
  \/ \E k \in 0..(MaxKaLen - 1), j \in 0..1, b \in StoreBytes : StoreUserdata(k, j, b)

----------------------------------------------------------------------------
(* Specification of the direct calls of sol_deserialize *)

PrivIdle ==
  /\ stack = <<>>
  /\ perr = NONE
  /\ lastReq = <<>>

DeserIdle ==
  /\ input = 0
  /\ i = 0
  /\ ka_len_out = UNSET
  /\ ka = <<>>
  /\ data = UNSET
  /\ data_len = UNSET
  /\ ret = NONE
  /\ oob = FALSE
  /\ status = NONE
  /\ opread = FALSE
  /\ nstores = 0

InitDeser ==
  /\ accts \in AcctSeqs({AcctA, AcctC}, 0..MaxAccounts)
  /\ idata \in {<<>>, <<3, 4>>}
  /\ kind \in Kinds
  /\ mem0 = Malformed(accts, idata, kind)
  /\ mem = mem0
  /\ caller = "test"
  /\ pc = "deser"
  /\ exact \in BOOLEAN
  /\ ka_len0 \in 0..MaxKaLen
  /\ ka_len = ka_len0
  /\ DeserIdle
  /\ PrivIdle

NextDeser ==
  \/ DeserCount
  \/ DeserAccount
  \/ DeserData
  \/ Store

SpecDeser == InitDeser /\ [][NextDeser]_vars

----------------------------------------------------------------------------
(* dup_accounts: entrypoint *)

SUCCESS                        == "SUCCESS"
ERROR_INVALID_ARGUMENT         == "ERROR_INVALID_ARGUMENT"
ERROR_INVALID_INSTRUCTION_DATA == "ERROR_INVALID_INSTRUCTION_DATA"

\* sol_deserialize(input, &params, SOL_ARRAY_SIZE(ka)) passes no slot for the
\* number of accounts: the buffer must declare exactly SOL_ARRAY_SIZE(ka)
EntrypointExact == TRUE

\* an element of ka[] the decoder did not fill holds indeterminate pointers
WildView ==
  [key |-> HUGE, tokens |-> HUGE, userdata_len |-> 0, userdata |-> HUGE,
   program_id |-> HUGE]

KaAt(kav, k) == IF k \in DOMAIN kav THEN kav[k] ELSE WildView

\* ka[k].data[0] = b
SetData0(m, kav, k, b) == WriteBytes(m, KaAt(kav, k).userdata, <<b>>)

\* ka[k].data[0] += d
AddData0(m, kav, k, d) ==
  LET off == KaAt(kav, k).userdata
  IN IF InBounds(m, off, 1) THEN WriteBytes(m, off, <<(m[off + 1] + d) % 256>>) ELSE m

\* *ka[k].lamports += d
AddLamports(m, kav, k, d) ==
  LET off == KaAt(kav, k).tokens
  IN IF InBounds(m, off, SIZE_U64) THEN WriteBytes(m, off, AddLE(Bytes8(m, off), d)) ELSE m

\* the accesses the case for opcode op makes: <<offset, size>>
SwitchAccesses(op, kav) ==
  CASE op = 1 -> {<<KaAt(kav, 2).userdata, 1>>}
    [] op = 2 -> {<<KaAt(kav, 3).userdata, 1>>}
    [] op = 3 -> {<<KaAt(kav, 2).userdata, 1>>, <<KaAt(kav, 3).userdata, 1>>}
    [] op = 4 -> {<<KaAt(kav, 1).tokens, SIZE_U64>>, <<KaAt(kav, 2).tokens, SIZE_U64>>}
    [] op = 5 -> {<<KaAt(kav, 1).tokens, SIZE_U64>>, <<KaAt(kav, 3).tokens, SIZE_U64>>}
    [] op = 6 -> {<<KaAt(kav, 1).tokens, SIZE_U64>>, <<KaAt(kav, 2).tokens, SIZE_U64>>,
                  <<KaAt(kav, 3).tokens, SIZE_U64>>}
    [] OTHER  -> {}

\* a switch whose default case falls out of the switch
DupSwitchDefaultFallsOut(op, m, kav) ==
  CASE op = 1 -> [mem |-> SetData0(m, kav, 2, 1), status |-> SUCCESS]
    [] op = 2 -> [mem |-> SetData0(m, kav, 3, 2), status |-> SUCCESS]
    [] op = 3 -> [mem |-> AddData0(AddData0(m, kav, 2, 1), kav, 3, 2), status |-> SUCCESS]
    [] op = 4 -> [mem |-> AddLamports(AddLamports(m, kav, 1, -1), kav, 2, 1),
                  status |-> SUCCESS]
    [] op = 5 -> [mem |-> AddLamports(AddLamports(m, kav, 1, -2), kav, 3, 2),
                  status |-> SUCCESS]
    [] op = 6 -> [mem |-> AddLamports(AddLamports(AddLamports(m, kav, 1, -3), kav, 2, 1),
                                      kav, 3, 2),
                  status |-> SUCCESS]
    [] OTHER  -> [mem |-> m, status |-> SUCCESS]

\* a switch whose case 6 credits index 2 twice and index 3 never
DupSwitchCase6Index(op, m, kav) ==
  CASE op = 1 -> [mem |-> SetData0(m, kav, 2, 1), status |-> SUCCESS]
    [] op = 2 -> [mem |-> SetData0(m, kav, 3, 2), status |-> SUCCESS]
    [] op = 3 -> [mem |-> AddData0(AddData0(m, kav, 2, 1), kav, 3, 2), status |-> SUCCESS]
    [] op = 4 -> [mem |-> AddLamports(AddLamports(m, kav, 1, -1), kav, 2, 1),
                  status |-> SUCCESS]
    [] op = 5 -> [mem |-> AddLamports(AddLamports(m, kav, 1, -2), kav, 3, 2),
                  status |-> SUCCESS]
    [] op = 6 -> [mem |-> AddLamports(AddLamports(AddLamports(m, kav, 1, -3), kav, 2, 1),
                                      kav, 2, 2),
                  status |-> SUCCESS]
    [] OTHER  -> [mem |-> m, status |-> ERROR_INVALID_INSTRUCTION_DATA]

\* lines 19-53: the switch on params.data[0]: the buffer and the status after it
DupSwitch(op, m, kav) ==
  CASE op = 1 -> [mem |-> SetData0(m, kav, 2, 1), status |-> SUCCESS]
    [] op = 2 -> [mem |-> SetData0(m, kav, 3, 2), status |-> SUCCESS]
    [] op = 3 -> [mem |-> AddData0(AddData0(m, kav, 2, 1), kav, 3, 2), status |-> SUCCESS]
    [] op = 4 -> [mem |-> AddLamports(AddLamports(m, kav, 1, -1), kav, 2, 1),
                  status |-> SUCCESS]
    [] op = 5 -> [mem |-> AddLamports(AddLamports(m, kav, 1, -2), kav, 3, 2),
                  status |-> SUCCESS]
    [] op = 6 -> [mem |-> AddLamports(AddLamports(AddLamports(m, kav, 1, -3), kav, 2, 1),
                                      kav, 3, 2),
                  status |-> SUCCESS]
    [] OTHER  -> [mem |-> m, status |-> ERROR_INVALID_INSTRUCTION_DATA]

\* a test of the decoder's result that never takes the error return
DeserFailedIgnored(r) == FALSE

\* line 15: !sol_deserialize(...)
DeserFailed(r) == r = RFALSE

\* lines 11-15: the call of sol_deserialize with the array ka[4]
EntryCall ==
  /\ caller = "entrypoint"
  /\ pc = "entry"
  /\ ka_len' = KA_SIZE
  /\ ka_len0' = KA_SIZE
  /\ exact' = EntrypointExact
  /\ pc' = "deser"
  /\ UNCHANGED <<mem, input, i, ka_len_out, ka, data, data_len, ret, oob,
                 status, opread, nstores>>
  /\ UNCHANGED hostVars
  /\ UNCHANGED privVars

\* lines 15-17: the decoder failed
EntryInvalidArgument ==
  /\ caller = "entrypoint"
  /\ pc = "done"
  /\ DeserFailed(ret)
  /\ status' = ERROR_INVALID_ARGUMENT
  /\ pc' = "returned"
  /\ UNCHANGED <<mem, opread, nstores>>
  /\ UNCHANGED deserVars
  /\ UNCHANGED hostVars
  /\ UNCHANGED privVars

\* lines 19-54: the switch and the return
EntrySwitch ==
  /\ caller = "entrypoint"
  /\ pc = "done"
  /\ ~DeserFailed(ret)
  /\ \E op \in ReadU8(mem, data) :
       IF op = FAULT
          \/ \E a \in SwitchAccesses(op, ka) : ~InBounds(mem, a[1], a[2])
       THEN /\ pc' = "fault"
            /\ oob' = TRUE
            /\ opread' = (op # FAULT)
            /\ UNCHANGED <<mem, status>>
       ELSE /\ opread' = TRUE
            /\ oob' = (oob \/ ~InBounds(mem, data, 1))
            /\ mem' = DupSwitch(op, mem, ka).mem
            /\ status' = DupSwitch(op, mem, ka).status
            /\ pc' = "returned"
  /\ UNCHANGED <<input, i, ka_len, ka_len0, exact, ka_len_out, ka, data,
                 data_len, ret, nstores>>
  /\ UNCHANGED hostVars
  /\ UNCHANGED privVars

Opcodes == (0..7) \cup {255}

InitEntry ==
  /\ accts \in AcctSeqs({AcctA, AcctB}, (KA_SIZE - 1)..(KA_SIZE + 1))
  /\ idata \in {<<>>} \cup {<<op>> : op \in Opcodes}
  /\ kind = "valid"
  /\ mem0 = Malformed(accts, idata, kind)
  /\ mem = mem0
  /\ caller = "entrypoint"
  /\ pc = "entry"
  /\ exact = FALSE
  /\ ka_len0 = 0
  /\ ka_len = 0
  /\ DeserIdle
  /\ PrivIdle

NextEntry ==
  \/ EntryCall
  \/ DeserCount
  \/ DeserAccount
  \/ DeserData
  \/ EntryInvalidArgument
  \/ EntrySwitch

SpecEntry == InitEntry /\ [][NextEntry]_vars

----------------------------------------------------------------------------
(* Nested invocations: the privilege rule *)

Programs == {"invoke", "invoked"}

PrivAccounts == {"account", "derived"}

\* the program whose program-derived address the account is
DerivedFrom(a) == IF a = "derived" THEN "invoke" ELSE NONE

Grants == [PrivAccounts -> [signer : BOOLEAN, writable : BOOLEAN]]

\* the accounts among the signer seeds that the calling program may sign for
DerivedSigners(prog, seeds) == {a \in seeds : DerivedFrom(a) = prog}

\* a check against the grants of the outermost frame
PrivilegeOKOutermost(held, derived, req) ==
  \A a \in PrivAccounts :
     /\ req[a].signer => (stack[1].grants[a].signer \/ a \in derived)
     /\ req[a].writable => stack[1].grants[a].writable

\* the callee may hold, per account and per flag, what the caller holds; it
\* may be a signer, too, for an address the caller derived
PrivilegeOK(held, derived, req) ==
  \A a \in PrivAccounts :
     /\ req[a].signer => (held[a].signer \/ a \in derived)
     /\ req[a].writable => held[a].writable

Top == stack[Len(stack)]

PRIVILEGE_VIOLATION == "PrivilegeViolation"

\* the running program invokes callee with the grants req
Invoke(callee, req, seeds) ==
  /\ caller = "runtime"
  /\ perr # PRIVILEGE_VIOLATION
  /\ Len(stack) < MaxDepth
  /\ LET derived == DerivedSigners(Top.prog, seeds)
     IN /\ lastReq' = <<[req |-> req, held |-> Top.grants, derived |-> derived]>>
        /\ IF PrivilegeOK(Top.grants, derived, req)
           THEN /\ stack' = Append(stack, [prog |-> callee, grants |-> req])
                /\ perr' = "ok"
           ELSE /\ perr' = PRIVILEGE_VIOLATION
                /\ UNCHANGED stack
  /\ UNCHANGED <<mem, pc, status, opread, nstores>>
  /\ UNCHANGED deserVars
  /\ UNCHANGED hostVars

\* the running program returns to its caller
Return ==
  /\ caller = "runtime"
  /\ perr # PRIVILEGE_VIOLATION
  /\ Len(stack) > 1
  /\ stack' = SubSeq(stack, 1, Len(stack) - 1)
  /\ perr' = "ok"
  /\ lastReq' = <<>>
  /\ UNCHANGED <<mem, pc, status, opread, nstores>>
  /\ UNCHANGED deserVars
  /\ UNCHANGED hostVars

InitPriv ==
  /\ accts = <<>>
  /\ idata = <<>>
  /\ kind = "valid"
  /\ mem0 = <<>>
  /\ mem = <<>>
  /\ caller = "runtime"
  /\ pc = "idle"
  /\ exact = FALSE
  /\ ka_len0 = 0
  /\ ka_len = 0
  /\ DeserIdle
  /\ \E g \in Grants : stack = <<[prog |-> "invoke", grants |-> g]>>
  /\ perr = NONE
  /\ lastReq = <<>>

NextPriv ==
  \/ \E callee \in Programs, req \in Grants, seeds \in SUBSET PrivAccounts :
        Invoke(callee, req, seeds)
  \/ Return

SpecPriv == InitPriv /\ [][NextPriv]_vars

----------------------------------------------------------------------------
(* What the host serialized, read back from the buffer as handed over *)

Min(a, b) == IF a < b THEN a ELSE b

\* view number k (from 0) describes account number k of the buffer
Describes(v, k) ==
  LET a == accts[k + 1]
  IN /\ SubSeq(mem0, v.key + 1, v.key + 32) = Pubkey(a.key)
     /\ I64Val(Bytes8(mem0, v.tokens)) = a.tokens
     /\ v.userdata_len = Len(a.data)
     /\ SubSeq(mem0, v.userdata + 1, v.userdata + v.userdata_len) = a.data
     /\ SubSeq(mem0, v.program_id + 1, v.program_id + 32) = Pubkey(a.owner)

\* C1: in exact mode on a valid buffer the call ends, returns true iff the
\* declared count equals ka_len, then has filled exactly ka_len views, view k
\* describing account k of the buffer, and returns false on a mismatch.
C1_ExactMode ==
  (caller = "test" /\ Valid /\ exact) =>
     /\ pc # "fault"
     /\ pc = "done" =>
          /\ (ret = RTRUE) <=> (Len(accts) = ka_len0)
          /\ (ret = RFALSE) <=> (Len(accts) # ka_len0)
          /\ ret = RTRUE =>
               /\ DOMAIN ka = 0..(ka_len0 - 1)
               /\ \A k \in DOMAIN ka : Describes(ka[k], k)
               /\ \A k \in DOMAIN ka : k > 0 => ka[k].key > ka[k - 1].key

C1_Witness ==
  /\ caller = "test" /\ Valid /\ exact /\ pc = "done" /\ ret = RTRUE
  /\ ka_len0 = 2
  /\ accts[1] # accts[2]

\* C2: in bounded mode on a valid buffer the call always returns true, has
\* filled exactly min(ka_len, declared count) views and has written that
\* number to *ka_len_out.
C2_BoundedMode ==
  (caller = "test" /\ Valid /\ ~exact) =>
     /\ pc # "fault"
     /\ pc = "done" =>
          /\ ret = RTRUE
          /\ DOMAIN ka = 0..(Min(ka_len0, Len(accts)) - 1)
          /\ ka_len_out = Min(ka_len0, Len(accts))

C2_Witness ==
  /\ caller = "test" /\ Valid /\ ~exact /\ pc = "done" /\ ret = RTRUE
  /\ ka_len0 = 1 /\ Len(accts) = 2
  /\ ka_len_out = 1

\* C3: after every successful decode of a valid buffer, the truncating case
\* included, *data / *data_len are the bytes and the length word that follow
\* all the accounts the buffer declares.
C3_PayloadAfterAllAccounts ==
  (caller = "test" /\ Valid /\ pc = "done" /\ ret = RTRUE) =>
     /\ data = PayloadOff(accts) + 8
     /\ data_len = Len(idata)

\* the same statement for the calls that do not truncate
C3_PayloadWhenNotTruncating ==
  (caller = "test" /\ Valid /\ pc = "done" /\ ret = RTRUE
     /\ ka_len0 >= Len(accts)) =>
     /\ data = PayloadOff(accts) + 8
     /\ data_len = Len(idata)

\* the layout of view k, from the sizes the host serialized
ExpectedView(k) ==
  LET o   == AccountOff(accts, k)
      len == U64Val(Bytes8(mem0, o + 40))
  IN [key |-> o, tokens |-> o + 32, userdata_len |-> len,
      userdata |-> o + 48, program_id |-> o + 48 + len]

LayoutOK ==
  /\ 0 \in DOMAIN ka => ka[0].key = 8
  /\ \A k \in DOMAIN ka :
       /\ ka[k] = ExpectedView(k)
       /\ k > 0 => ka[k].key = ka[k - 1].key + 80 + ka[k - 1].userdata_len

\* the buffer m with bytes bs at offset off, byte by byte
SameExcept(m1, m2, off, bs) ==
  /\ Len(m1) = Len(m2)
  /\ \A p \in 1..Len(m1) :
       m1[p] = IF p - 1 >= off /\ p - 1 < off + Len(bs) THEN bs[p - off] ELSE m2[p]

\* C4: on a valid buffer every decoded view is positional with no padding
\* (key at o, tokens at o+32, userdata_len the u64 at o+40, userdata at o+48,
\* program_id at o+48+userdata_len, next account at o+80+userdata_len, o_0 = 8),
\* and a store through tokens or userdata changes the buffer bytes at exactly
\* those offsets.
C4_PositionalInPlace ==
  [][ /\ (Valid /\ caller = "test") => LayoutOK'
      /\ \A k \in 0..(MaxKaLen - 1), v \in StoreValues :
           (Valid /\ StoreTokens(k, v)) =>
              SameExcept(mem', mem, AccountOff(accts, k) + 32, I64LE(v))
      /\ \A k \in 0..(MaxKaLen - 1), j \in 0..1, b \in StoreBytes :
           (Valid /\ StoreUserdata(k, j, b)) =>
              SameExcept(mem', mem, AccountOff(accts, k) + 48 + j, <<b>>)
    ]_vars

C4_Witness ==
  /\ caller = "test" /\ Valid /\ pc = "done" /\ ret = RTRUE
  /\ nstores = 1
  /\ 1 \in DOMAIN ka
  /\ ka[0].userdata_len = 2
  /\ mem[ka[1].userdata + 1] # mem0[ka[1].userdata + 1]

\* C5: the decoder never reads past the end of the buffer and never returns
\* true with a view or an instruction payload that extends past it.
C5_NoOverrun ==
  caller = "test" =>
     /\ ~oob
     /\ pc # "fault"
     /\ (pc = "done" /\ ret = RTRUE) =>
          /\ data + data_len <= Len(mem)
          /\ \A k \in DOMAIN ka : ka[k].program_id + 32 <= Len(mem)

----------------------------------------------------------------------------
(* dup_accounts *)

\* the balance of account number k (from 0) in buffer m
Balance(m, k) == I64Val(Bytes8(m, AccountOff(accts, k) + 32))

\* the offsets of the balance of account number k
BalanceBytes(k) == (AccountOff(accts, k) + 32)..(AccountOff(accts, k) + 39)

\* the bytes of m and mem0 agree outside the offsets in S
UnchangedOutside(m, S) ==
  /\ Len(m) = Len(mem0)
  /\ \A p \in 1..Len(m) : (p - 1) \notin S => m[p] = mem0[p]

Decoded == caller = "entrypoint" /\ ret = RTRUE

\* C6: when positions 2 and 3 of a 4-account buffer list the same account,
\* what entrypoint stored to data[0] or to the balance through one of the two
\* views is read back through the other.
C6_DuplicatesAliased ==
  (Decoded /\ pc = "returned" /\ Len(accts) = 4 /\ accts[3] = accts[4]) =>
     /\ mem[ka[2].userdata + 1] = mem[ka[3].userdata + 1]
     /\ Bytes8(mem, ka[2].tokens) = Bytes8(mem, ka[3].tokens)

\* C7: after a successful decode, a first instruction data byte outside 1..6
\* makes entrypoint return ERROR_INVALID_INSTRUCTION_DATA with every byte of
\* the buffer unchanged.
C7_UnrecognizedOpcode ==
  (Decoded /\ Len(idata) >= 1 /\ idata[1] \notin 1..6) =>
     /\ pc # "fault"
     /\ mem = mem0
     /\ pc = "returned" => status = ERROR_INVALID_INSTRUCTION_DATA

C7_Witness ==
  /\ Decoded /\ pc = "returned"
  /\ idata = <<7>>
  /\ status = ERROR_INVALID_INSTRUCTION_DATA

\* C8: after a successful decode of a 4-account buffer, opcode 6 returns
\* SUCCESS, changes no byte outside the three balances and changes the
\* balances at index 1, 2, 3 by -3, +1, +2; opcode 4 by -1, +1, 0; opcode 5
\* by -2, 0, +2: the deltas sum to zero.
C8_BalanceTransfers ==
  (Decoded /\ pc = "returned" /\ Len(idata) >= 1 /\ idata[1] \in 4..6) =>
     LET d1 == Balance(mem, 1) - Balance(mem0, 1)
         d2 == Balance(mem, 2) - Balance(mem0, 2)
         d3 == Balance(mem, 3) - Balance(mem0, 3)
     IN /\ status = SUCCESS
        /\ UnchangedOutside(mem, BalanceBytes(1) \cup BalanceBytes(2) \cup BalanceBytes(3))
        /\ Balance(mem, 0) = Balance(mem0, 0)
        /\ idata[1] = 6 => <<d1, d2, d3>> = <<-3, 1, 2>>
        /\ idata[1] = 5 => <<d1, d2, d3>> = <<-2, 0, 2>>
        /\ idata[1] = 4 => <<d1, d2, d3>> = <<-1, 1, 0>>
        /\ d1 + d2 + d3 = 0

C8_Witness ==
  /\ Decoded /\ pc = "returned"
  /\ idata = <<6>>
  /\ Balance(mem0, 1) = 0 /\ Balance(mem, 1) = -3
  /\ Balance(mem, 2) = 6 /\ Balance(mem, 3) = 2

\* C9: when the decoder fails, entrypoint returns ERROR_INVALID_ARGUMENT
\* without reading the opcode and without changing a byte of the buffer.
C9_DecodeFailureStopsProgram ==
  (caller = "entrypoint" /\ ret = RFALSE) =>
     /\ pc \in {"done", "returned"}
     /\ ~opread
     /\ mem = mem0
     /\ pc = "returned" => status = ERROR_INVALID_ARGUMENT
     /\ pc = "done" => ENABLED EntryInvalidArgument

C9_Witness ==
  /\ caller = "entrypoint" /\ ret = RFALSE /\ pc = "returned"
  /\ Len(accts) = 5
  /\ idata = <<6>>
  /\ status = ERROR_INVALID_ARGUMENT

----------------------------------------------------------------------------
(* Nested invocations *)

\* what the last invocation attempt asked for beyond the caller's grants
Escalates(r) ==
  \E a \in PrivAccounts :
     \/ r.req[a].writable /\ ~r.held[a].writable
     \/ r.req[a].signer /\ ~r.held[a].signer /\ a \notin r.derived

====
